---- MODULE Spec2Model ----
(***************************************************************************)
(* Nimbus-DDNS: the update flow of index.js (main), the Cloudflare client  *)
(* of lib/cloudflare.js and the JSON cache of lib/config.js.               *)
(*                                                                         *)
(* One process per run.  main() is a chain of awaits; each action below is *)
(* one turn of the event loop: the completion of the awaited request and   *)
(* all the synchronous code that follows it up to the next await.  The     *)
(* persists started by ConfigManager.set are not awaited by main: each is  *)
(* its own chain of file-system operations (open/truncate, write, rename)  *)
(* that completes at times of the file system's choosing.                  *)
(***************************************************************************)
EXTENDS Naturals, Sequences, FiniteSets, TLC

\* Number of consecutive runs (process invocations) explored.
MaxRuns == 2

\* Number of saveConfig and set calls made on a ConfigManager driven directly.
MaxCalls == 2

VARIABLES
    run,        \* index of the current process invocation
    pc,         \* position of main(): the await it is suspended at, or its end
    config,     \* ConfigManager.config, the in-memory document
    config0,    \* the document loadConfig returned when this run was constructed
    ipLog,      \* how the IP requests of this run settled, in order
    apiLog,     \* what the zone and record lookups of this run settled with
    cfgFile,    \* content of the file at configPath
    tmpExists,  \* whether `${configPath}.tmp` exists
    tmpFile,    \* content of `${configPath}.tmp` (<<>> when it does not exist)
    saves,      \* the saveConfig calls of this run, in call order
    publicIP,   \* main's const publicIP
    zoneId,     \* main's let zoneId
    recordId,   \* main's let recordId
    reqs,       \* HTTP requests issued in this run, per endpoint
    updReq,     \* the PUT request issued in this run
    flowError,  \* message logged by main's catch, "" when none
    failedAt,   \* the await at which main's try block was left, "" when none
    unhandled,  \* promise rejections of this run that no handler received
    lastIP      \* content of the last PUT the provider accepted, over all runs

vars == <<run, pc, config, config0, ipLog, apiLog, cfgFile, tmpExists, tmpFile, saves, publicIP,
          zoneId, recordId, reqs, updReq, flowError, failedAt, unhandled,
          lastIP>>

fsVars == <<cfgFile, tmpExists, tmpFile>>

(***************************************************************************)
(* JavaScript values                                                       *)
(***************************************************************************)
Undefined == "undefined"
Null == "null"

\* !v for the identifier values of the flow (strings, undefined, null)
Truthy(v) == v \notin {"", Undefined, Null}

(***************************************************************************)
(* Documents: a JS object is a sequence of <<key, value>> in insertion     *)
(* order, keys unique.                                                     *)
(***************************************************************************)
Keys(doc) == {doc[i][1] : i \in 1..Len(doc)}

\* this.config[key]
Get(doc, key) ==
    IF key \in Keys(doc)
    THEN LET i == CHOOSE j \in 1..Len(doc) : doc[j][1] = key IN doc[i][2]
    ELSE Undefined

\* this.config[key] = value
Put(doc, key, value) ==
    IF key \in Keys(doc)
    THEN [i \in 1..Len(doc) |-> IF doc[i][1] = key THEN <<key, value>> ELSE doc[i]]
    ELSE Append(doc, <<key, value>>)

\* mutant of Merge: the document is replaced by the argument
MergeReplaces(a, b) == b

\* { ...a, ...b }
RECURSIVE Merge(_, _)
Merge(a, b) ==
    IF b = <<>> THEN a
    ELSE Merge(Put(a, Head(b)[1], Head(b)[2]), Tail(b))

(***************************************************************************)
(* Serialisation.  A file is a sequence of tokens: "{", "}", "," and one   *)
(* token per "key": "value" member.                                        *)
(***************************************************************************)
RECURSIVE Members(_)
Members(doc) ==
    IF doc = <<>> THEN <<>>
    ELSE IF Len(doc) = 1 THEN << <<"kv", doc[1][1], doc[1][2]>> >>
    ELSE << <<"kv", doc[1][1], doc[1][2]>>, <<",">> >> \o Members(Tail(doc))

\* JSON.stringify(doc, null, 2)
Stringify(doc) == << <<"{">> >> \o Members(doc) \o << <<"}">> >>

\* whether the text between the braces is member ("," member)*
RECURSIVE WellFormedMembers(_)
WellFormedMembers(ts) ==
    IF ts = <<>> THEN TRUE
    ELSE /\ Head(ts)[1] = "kv"
         /\ \/ Len(ts) = 1
            \/ /\ Len(ts) >= 3
               /\ ts[2] = <<",">>
               /\ WellFormedMembers(SubSeq(ts, 3, Len(ts)))

\* whether JSON.parse accepts the text
Parses(text) ==
    /\ Len(text) >= 2
    /\ text[1] = <<"{">>
    /\ text[Len(text)] = <<"}">>
    /\ WellFormedMembers(SubSeq(text, 2, Len(text) - 1))

RECURSIVE ParseMembers(_, _)
ParseMembers(ts, acc) ==
    IF ts = <<>> THEN acc
    ELSE IF Head(ts)[1] = "kv"
         THEN ParseMembers(Tail(ts), Put(acc, Head(ts)[2], Head(ts)[3]))
         ELSE ParseMembers(Tail(ts), acc)

\* JSON.parse(text), for a text it accepts
Parse(text) == ParseMembers(SubSeq(text, 2, Len(text) - 1), <<>>)

\* a write of `data` at offset 0 of a file holding `old`
WriteAt0(old, data) == data \o SubSeq(old, Len(data) + 1, Len(old))

(***************************************************************************)
(* HTTP responses                                                          *)
(***************************************************************************)
WS == {" ", "\n"}

\* bodies of the public-IP services: response.data
IpBodies ==
    { [kind |-> "null", s |-> <<>>],
      [kind |-> "undefined", s |-> <<>>],
      [kind |-> "string", s |-> <<>>],
      [kind |-> "string", s |-> <<"\n">>],
      [kind |-> "string", s |-> <<" ", "1.2.3.4", " ", "\n">>],
      [kind |-> "string", s |-> <<"5.6.7.8">>] }

\* what axios.get of an IP service settles with
IpResponses ==
    { [st |-> "neterr", data |-> [kind |-> "undefined", s |-> <<>>]],
      [st |-> "non2xx", data |-> [kind |-> "string", s |-> <<"5.6.7.8">>]] }
    \cup { [st |-> "ok", data |-> b] : b \in IpBodies }

\* what this.api.get / this.api.put settle with: response.data of the provider
ApiResponses(results) ==
    { [st |-> "neterr", success |-> FALSE, result |-> <<>>],
      [st |-> "non2xx", success |-> FALSE, result |-> <<>>],
      [st |-> "ok", success |-> FALSE, result |-> <<>>] }
    \cup { [st |-> "ok", success |-> TRUE, result |-> r] : r \in results }

\* GET /zones?name=...: data.result is the list of the ids of the zones
ZoneResponses == ApiResponses({ <<>>, <<"">>, <<"z1">>, <<"z1", "z2">> })

\* GET /zones/{zoneId}/dns_records?...: data.result is the list of record ids
RecordResponses == ApiResponses({ <<>>, <<"">>, <<"r1">>, <<"r1", "r2">> })

\* PUT /zones/{zoneId}/dns_records/{recordId}
UpdateResponses == ApiResponses({ <<>> })

\* String.prototype.trim
RECURSIVE TrimLeft(_)
TrimLeft(s) == IF s # <<>> /\ Head(s) \in WS THEN TrimLeft(Tail(s)) ELSE s

RECURSIVE TrimRight(_)
TrimRight(s) ==
    IF s # <<>> /\ s[Len(s)] \in WS THEN TrimRight(SubSeq(s, 1, Len(s) - 1)) ELSE s

Trim(s) == TrimRight(TrimLeft(s))

(***************************************************************************)
(* lib/cloudflare.js                                                       *)
(***************************************************************************)
\* mutant of RequestRejected: only a network error reaches the catch, as if
\* validateStatus accepted every status
RequestRejectedNetworkOnly(resp) == resp.st = "neterr"

\* getPublicIP: the await of axios.get inside try rejects (network error,
\* or a status outside 2xx under axios' default validateStatus)
RequestRejected(resp) == resp.st # "ok"

\* mutant of RequestError: the rejection is replaced by an error of the
\* caller's own
RequestErrorWrapped(resp) == "Failed to fetch public IP"

\* the message of the error a rejected axios request rejects with
RequestError(resp) ==
    IF resp.st = "neterr" THEN "Network error"
    ELSE "Request failed with status code"

\* how a request to an IP service settled: the rejection, or the type of the
\* body of a fulfilled one
OutcomeKind(resp) == IF resp.st # "ok" THEN resp.st ELSE resp.data.kind

\* getPublicIP: response.data.trim() throws a TypeError
TrimThrows(resp) == resp.data.kind # "string"

\* getPublicIP: the value returned from a response whose data is a string
PublicIPOf(resp) == Trim(resp.data.s)

\* what a lookup settled with: the rejection or the provider's verdict,
\* whether data.result has a first element, and that element's id
Summary(resp) ==
    [st |-> resp.st, success |-> resp.success, matched |-> resp.result # <<>>,
     first |-> IF resp.result # <<>> THEN resp.result[1] ELSE Undefined]

\* no lookup has settled
NoResponse ==
    [st |-> "", success |-> FALSE, matched |-> FALSE, first |-> Undefined]

\* getZoneId, getRecordId, updateDNSRecord: the thrown error's message, ""
\* when the call returns
ZoneIdError(resp) ==
    IF resp.st # "ok" THEN RequestError(resp)
    ELSE IF ~resp.success THEN "Failed to fetch Zone ID"
    ELSE IF resp.result = <<>> THEN "TypeError"
    ELSE ""

\* mutant of ZoneIdOf: the last zone of the result
ZoneIdOfLast(resp) == resp.result[Len(resp.result)]

\* getZoneId: response.data.result[0].id
ZoneIdOf(resp) == resp.result[1]

RecordIdError(resp) ==
    IF resp.st # "ok" THEN RequestError(resp)
    ELSE IF ~resp.success THEN "Failed to fetch Record ID"
    ELSE ""

\* mutant of RecordIdOf: the last record of the result
RecordIdOfLast(resp) ==
    IF resp.result # <<>> /\ Truthy(resp.result[Len(resp.result)])
    THEN resp.result[Len(resp.result)] ELSE Null

\* getRecordId: response.data.result[0]?.id || null
RecordIdOf(resp) ==
    IF resp.result # <<>> /\ Truthy(resp.result[1]) THEN resp.result[1] ELSE Null

UpdateError(resp) ==
    IF resp.st # "ok" THEN RequestError(resp)
    ELSE IF ~resp.success THEN "Failed to update DNS record"
    ELSE ""

\* updateDNSRecord: the PUT it issues
UpdateRequest(zid, rid, ip) ==
    [zone |-> zid, rec |-> rid, type |-> "A", content |-> ip, ttl |-> 1800,
     proxied |-> FALSE]

NoRequest ==
    [zone |-> Undefined, rec |-> Undefined, type |-> "", content |-> <<>>,
     ttl |-> 0, proxied |-> FALSE]

(***************************************************************************)
(* lib/config.js                                                           *)
(***************************************************************************)
\* saveConfig up to its first await: the merge, the serialisation, and the
\* call of fs.promises.writeFile, which requests the open of the temporary
\* path
NewSave(cfg, newConfig) ==
    [st |-> "open", data |-> Stringify(Merge(cfg, newConfig)), fd |-> "none",
     before |-> cfg, arg |-> newConfig, call |-> <<"saveConfig">>,
     canon0 |-> cfgFile, wrote |-> "none"]

\* mutant of SetConfig: set starts the persist of a copy and leaves
\* this.config as it was
SetConfigNotInMemory(cfg, key, value) == cfg

\* set: this.config after it
SetConfig(cfg, key, value) ==
    LET c == Put(cfg, key, value) IN Merge(c, c)

\* mutant of SetSaves: set does not call saveConfig
SetSavesNothing(svs, cfg, key, value) == svs

\* set: the saveConfig calls after it
SetSaves(svs, cfg, key, value) ==
    LET c == Put(cfg, key, value) IN
    Append(svs, [NewSave(c, c) EXCEPT !.call = <<"set", key, value>>])

\* a saveConfig call whose promise has settled
Settled(sv) == sv.st \in {"ok", "failed"}

(***************************************************************************)
(* index.js: main                                                          *)
(***************************************************************************)
\* every saveConfig call of the run has settled
AllSettled == \A i \in 1..Len(saves) : Settled(saves[i])

\* the message of the error main throws when getRecordId returns null
NotFoundMessage == "DNS record not found. Please create it first."

\* a local of main that has not been assigned
Unset == <<"unset">>

NoReqs == [ip1 |-> 0, ip2 |-> 0, zone |-> 0, rec |-> 0, upd |-> 0]

\* the variables main and the calls it makes assign
Flow(p, cfg, svs, ip, zid, rid, rq, ur, err, at) ==
    /\ pc' = p
    /\ config' = cfg
    /\ saves' = svs
    /\ publicIP' = ip
    /\ zoneId' = zid
    /\ recordId' = rid
    /\ reqs' = rq
    /\ updReq' = ur
    /\ flowError' = err
    /\ failedAt' = at

\* mutant of Catch: the handler logs and starts the flow again
CatchAndRetry(msg, at, cfg, svs, ip, zid, rid) ==
    Flow("start", cfg, svs, ip, zid, rid, reqs, updReq, msg, at)

\* catch (error) { logger.error(`Error: ${error.message}`) }: main ends
Catch(msg, at, cfg, svs, ip, zid, rid) ==
    Flow("failed", cfg, svs, ip, zid, rid, reqs, updReq, msg, at)

\* mutant of CallUpdate: the update is skipped when the IP is the one the
\* provider already holds
CallUpdateIfChanged(cfg, svs, ip, zid, rid) ==
    IF ip = lastIP
    THEN Flow("done", cfg, svs, ip, zid, rid, reqs, updReq, "", "")
    ELSE Flow("upd", cfg, svs, ip, zid, rid, [reqs EXCEPT !.upd = @ + 1],
              UpdateRequest(zid, rid, ip), "", "")

\* await cloudflare.updateDNSRecord(zoneId, recordId, SUBDOMAIN, publicIP)
CallUpdate(cfg, svs, ip, zid, rid) ==
    Flow("upd", cfg, svs, ip, zid, rid, [reqs EXCEPT !.upd = @ + 1],
         UpdateRequest(zid, rid, ip), "", "")

\* mutant of NeedsLookup: the cache is never consulted
NeedsLookupAlways(cached) == TRUE

\* if (!zoneId), if (!recordId): the cached value does not serve
NeedsLookup(cached) == ~Truthy(cached)

\* mutant of RecordMissing: the result of the lookup is not checked
RecordMissingNever(rid) == FALSE

\* if (!recordId) throw new Error("DNS record not found. ...")
RecordMissing(rid) == ~Truthy(rid)

\* mutant of ResolveRecord: a cached record id is set, and so persisted,
\* again
ResolveRecordResave(cfg, svs, ip, zid) ==
    LET rid == Get(cfg, "recordId") IN
    IF NeedsLookup(rid)
    THEN Flow("rec", cfg, svs, ip, zid, rid, [reqs EXCEPT !.rec = @ + 1],
              updReq, "", "")
    ELSE CallUpdate(SetConfig(cfg, "recordId", rid),
                    SetSaves(svs, cfg, "recordId", rid), ip, zid, rid)

\* let recordId = configManager.get("recordId") and what follows it
ResolveRecord(cfg, svs, ip, zid) ==
    LET rid == Get(cfg, "recordId") IN
    IF NeedsLookup(rid)
    THEN Flow("rec", cfg, svs, ip, zid, rid, [reqs EXCEPT !.rec = @ + 1],
              updReq, "", "")
    ELSE CallUpdate(cfg, svs, ip, zid, rid)

\* let zoneId = configManager.get("zoneId") and what follows it
ResolveZone(ip) ==
    LET zid == Get(config, "zoneId") IN
    IF NeedsLookup(zid)
    THEN Flow("zone", config, saves, ip, zid, recordId,
              [reqs EXCEPT !.zone = @ + 1], updReq, "", "")
    ELSE ResolveRecord(config, saves, ip, zid)

\* getPublicIP's return response.data.trim(), and main after it
AfterIP(resp) ==
    IF TrimThrows(resp)
    THEN Catch("TypeError", "ip", config, saves, publicIP, zoneId, recordId)
    ELSE ResolveZone(PublicIPOf(resp))

\* main() is called: getPublicIP requests the primary service
Start ==
    /\ pc = "start"
    /\ Flow("ip1", config, saves, publicIP, zoneId, recordId,
            [reqs EXCEPT !.ip1 = @ + 1], updReq, "", "")
    /\ UNCHANGED <<run, config0, ipLog, apiLog, fsVars, unhandled, lastIP>>

\* the primary service's request settles
PrimaryResponse ==
    /\ pc = "ip1"
    /\ \E resp \in IpResponses :
       /\ IF RequestRejected(resp)
          THEN Flow("ip2", config, saves, publicIP, zoneId, recordId,
                    [reqs EXCEPT !.ip2 = @ + 1], updReq, "", "")
          ELSE AfterIP(resp)
       /\ ipLog' = Append(ipLog, OutcomeKind(resp))
    /\ UNCHANGED <<run, config0, apiLog, fsVars, unhandled, lastIP>>

\* the secondary service's request settles
SecondaryResponse ==
    /\ pc = "ip2"
    /\ \E resp \in IpResponses :
       /\ IF RequestRejected(resp)
          THEN Catch(RequestError(resp), "ip", config, saves, publicIP,
                     zoneId, recordId)
          ELSE AfterIP(resp)
       /\ ipLog' = Append(ipLog, OutcomeKind(resp))
    /\ UNCHANGED <<run, config0, apiLog, fsVars, unhandled, lastIP>>

\* the zone lookup settles
ZoneResponse ==
    /\ pc = "zone"
    /\ \E resp \in ZoneResponses :
       /\ IF ZoneIdError(resp) # ""
          THEN Catch(ZoneIdError(resp), "zone", config, saves, publicIP,
                     zoneId, recordId)
          ELSE LET zid == ZoneIdOf(resp) IN
               ResolveRecord(SetConfig(config, "zoneId", zid),
                             SetSaves(saves, config, "zoneId", zid),
                             publicIP, zid)
       /\ apiLog' = [apiLog EXCEPT !.zone = Summary(resp)]
    /\ UNCHANGED <<run, config0, ipLog, fsVars, unhandled, lastIP>>

\* the record lookup settles
RecordResponse ==
    /\ pc = "rec"
    /\ \E resp \in RecordResponses :
       /\ IF RecordIdError(resp) # ""
          THEN Catch(RecordIdError(resp), "rec", config, saves, publicIP,
                     zoneId, recordId)
          ELSE LET rid == RecordIdOf(resp) IN
               IF RecordMissing(rid)
               THEN Catch(NotFoundMessage, "rec", config, saves, publicIP,
                          zoneId, rid)
               ELSE CallUpdate(SetConfig(config, "recordId", rid),
                               SetSaves(saves, config, "recordId", rid),
                               publicIP, zoneId, rid)
       /\ apiLog' = [apiLog EXCEPT !.rec = Summary(resp)]
    /\ UNCHANGED <<run, config0, ipLog, fsVars, unhandled, lastIP>>

\* the update settles
UpdateResponse ==
    /\ pc = "upd"
    /\ \E resp \in UpdateResponses :
          IF UpdateError(resp) # ""
          THEN /\ Catch(UpdateError(resp), "upd", config, saves, publicIP,
                        zoneId, recordId)
               /\ lastIP' = lastIP
          ELSE /\ Flow("done", config, saves, publicIP, zoneId, recordId,
                       reqs, updReq, "", "")
               /\ lastIP' = updReq.content
    /\ UNCHANGED <<run, config0, ipLog, apiLog, fsVars, unhandled>>

(***************************************************************************)
(* The persists: the file-system operations of a saveConfig call.  The     *)
(* descriptor a call holds names a file, not a path: after a rename of the *)
(* temporary path it names the file at configPath ("canon"), and after a   *)
(* second rename a file no path leads to ("orphan").                       *)
(***************************************************************************)
mainVars == <<run, pc, config, config0, ipLog, apiLog, publicIP, zoneId, recordId, reqs, updReq,
              flowError, failedAt, lastIP>>

\* saveConfig's catch: logs, rethrows; set attached no handler to the promise
SaveFails(i) ==
    /\ saves' = [saves EXCEPT ![i].st = "failed", ![i].fd = "closed"]
    /\ unhandled' = unhandled + 1

\* writeFile opens the temporary path with flag "w": create or truncate
SaveOpen(i) ==
    /\ saves[i].st = "open"
    /\ \/ /\ tmpExists' = TRUE
          /\ tmpFile' = <<>>
          /\ saves' = [saves EXCEPT ![i].st = "write", ![i].fd = "tmp"]
          /\ UNCHANGED <<cfgFile, unhandled>>
       \/ /\ SaveFails(i)
          /\ UNCHANGED fsVars
    /\ UNCHANGED mainVars

\* writeFile writes the serialised document through its descriptor and
\* closes it
SaveWrite(i) ==
    /\ saves[i].st = "write"
    /\ \/ /\ saves' = [saves EXCEPT ![i].st = "rename", ![i].fd = "closed",
                                   ![i].wrote = saves[i].fd]
          /\ tmpFile' = IF saves[i].fd = "tmp"
                         THEN WriteAt0(tmpFile, saves[i].data) ELSE tmpFile
          /\ cfgFile' = IF saves[i].fd = "canon"
                         THEN WriteAt0(cfgFile, saves[i].data) ELSE cfgFile
          /\ UNCHANGED <<tmpExists, unhandled>>
       \/ /\ SaveFails(i)
          /\ UNCHANGED fsVars
    /\ UNCHANGED mainVars

\* the descriptors after the temporary path was renamed over configPath
Renamed(fd) ==
    IF fd = "tmp" THEN "canon" ELSE IF fd = "canon" THEN "orphan" ELSE fd

\* mutant of SaveRename: the temporary file is copied over configPath and
\* stays
SaveRenameByCopy(i) ==
    /\ saves[i].st = "rename"
    /\ \/ /\ tmpExists
          /\ cfgFile' = tmpFile
          /\ saves' = [saves EXCEPT ![i].st = "ok"]
          /\ UNCHANGED <<tmpExists, tmpFile, unhandled>>
       \/ /\ SaveFails(i)
          /\ UNCHANGED fsVars
    /\ UNCHANGED mainVars

\* fs.promises.rename(tempPath, this.configPath)
SaveRename(i) ==
    /\ saves[i].st = "rename"
    /\ \/ /\ tmpExists
          /\ cfgFile' = tmpFile
          /\ tmpExists' = FALSE
          /\ tmpFile' = <<>>
          /\ saves' = [j \in 1..Len(saves) |->
                         IF j = i THEN [saves[j] EXCEPT !.st = "ok"]
                         ELSE [saves[j] EXCEPT !.fd = Renamed(@)]]
          /\ UNCHANGED unhandled
       \/ /\ SaveFails(i)
          /\ UNCHANGED fsVars
    /\ UNCHANGED mainVars

(***************************************************************************)
(* The next invocation: a fresh process, once this one has nothing left to *)
(* do.  new ConfigManager loads the document from configPath.              *)
(***************************************************************************)
Restart ==
    /\ pc \in {"done", "failed"}
    /\ AllSettled
    /\ run < MaxRuns
    /\ run' = run + 1
    /\ IF Parses(cfgFile)
       THEN pc' = "start" /\ config' = Parse(cfgFile)
       ELSE pc' = "crashed" /\ config' = <<>>
    /\ config0' = config'
    /\ ipLog' = <<>>
    /\ apiLog' = [zone |-> NoResponse, rec |-> NoResponse]
    /\ saves' = <<>>
    /\ publicIP' = Unset
    /\ zoneId' = Undefined
    /\ recordId' = Undefined
    /\ reqs' = NoReqs
    /\ updReq' = NoRequest
    /\ flowError' = ""
    /\ failedAt' = ""
    /\ unhandled' = 0
    /\ UNCHANGED <<fsVars, lastIP>>

\* the documents the cache file is provisioned with
InitDocs ==
    { (IF o THEN << <<"existing", "value">> >> ELSE <<>>)
      \o (IF z = Undefined THEN <<>> ELSE << <<"zoneId", z>> >>)
      \o (IF r = Undefined THEN <<>> ELSE << <<"recordId", r>> >>) :
        o \in BOOLEAN, z \in {Undefined, "", "zc"}, r \in {Undefined, "", "rc"} }

Init ==
    /\ run = 1
    /\ pc = "start"
    /\ \E d \in InitDocs : config = d /\ config0 = d /\ cfgFile = Stringify(d)
    /\ ipLog = <<>>
    /\ apiLog = [zone |-> NoResponse, rec |-> NoResponse]
    /\ tmpExists = FALSE
    /\ tmpFile = <<>>
    /\ saves = <<>>
    /\ publicIP = Unset
    /\ zoneId = Undefined
    /\ recordId = Undefined
    /\ reqs = NoReqs
    /\ updReq = NoRequest
    /\ flowError = ""
    /\ failedAt = ""
    /\ unhandled = 0
    /\ lastIP = Unset

Next ==
    \/ Start
    \/ PrimaryResponse
    \/ SecondaryResponse
    \/ ZoneResponse
    \/ RecordResponse
    \/ UpdateResponse
    \/ \E i \in 1..Len(saves) : SaveOpen(i)
    \/ \E i \in 1..Len(saves) : SaveWrite(i)
    \/ \E i \in 1..Len(saves) : SaveRename(i)
    \/ Restart

Spec == Init /\ [][Next]_vars

(***************************************************************************)
(* A ConfigManager driven directly through saveConfig(partial) and         *)
(* set(key, value), as by its tests, awaited or not.                       *)
(***************************************************************************)
\* arguments of saveConfig
Partials ==
    { <<>>,
      << <<"new", "value">> >>,
      << <<"existing", "changed">>, <<"zoneId", "z1">> >> }

apiFrame == <<run, pc, config0, ipLog, apiLog, fsVars, publicIP, zoneId,
              recordId, reqs, updReq, flowError, failedAt, unhandled, lastIP>>

\* a call of saveConfig(partial)
ApiSaveConfig ==
    /\ pc = "api"
    /\ Len(saves) < MaxCalls
    /\ \E partial \in Partials :
          /\ config' = Merge(config, partial)
          /\ saves' = Append(saves, NewSave(config, partial))
    /\ UNCHANGED apiFrame

\* a call of set(key, value)
ApiSet ==
    /\ pc = "api"
    /\ Len(saves) < MaxCalls
    /\ \E key \in {"zoneId", "test"}, value \in {"z1", "new value"} :
          /\ config' = SetConfig(config, key, value)
          /\ saves' = SetSaves(saves, config, key, value)
    /\ UNCHANGED apiFrame

CacheInit ==
    /\ run = 1
    /\ pc = "api"
    /\ \E d \in { <<>>, << <<"existing", "value">> >>,
                  << <<"zoneId", "zc">>, <<"existing", "value">> >> } :
          config = d /\ config0 = d /\ cfgFile = Stringify(d)
    /\ ipLog = <<>>
    /\ apiLog = [zone |-> NoResponse, rec |-> NoResponse]
    /\ tmpExists = FALSE
    /\ tmpFile = <<>>
    /\ saves = <<>>
    /\ publicIP = Unset
    /\ zoneId = Undefined
    /\ recordId = Undefined
    /\ reqs = NoReqs
    /\ updReq = NoRequest
    /\ flowError = ""
    /\ failedAt = ""
    /\ unhandled = 0
    /\ lastIP = Unset

CacheNext ==
    \/ ApiSaveConfig
    \/ ApiSet
    \/ \E i \in 1..Len(saves) : SaveOpen(i)
    \/ \E i \in 1..Len(saves) : SaveWrite(i)
    \/ \E i \in 1..Len(saves) : SaveRename(i)

CacheSpec == CacheInit /\ [][CacheNext]_vars

(***************************************************************************)
(* Properties                                                              *)
(***************************************************************************)
\* the awaits of main that are HTTP requests in flight
NetworkPending == pc \in {"ip1", "ip2", "zone", "rec", "upd"}

\* the saveConfig calls whose file operations are not finished
PersistsPending == {i \in 1..Len(saves) : ~Settled(saves[i])}

\* C1: in every reachable state the file at configPath holds a complete
\* document (one JSON.parse accepts), never a partially written one.
C1_CanonicalFileComplete == Parses(cfgFile)

\* C2 (as stated): whenever the primary lookup fails in any way (network
\* error, non-2xx, or a malformed body) the secondary service is requested
\* exactly once and the primary is not requested again.
C2_AnyPrimaryFailureFallsBack ==
    (Len(ipLog) >= 1 /\ ipLog[1] \in {"neterr", "non2xx", "null", "undefined"})
        => (reqs.ip2 = 1 /\ reqs.ip1 = 1)

\* C2 (amended): the secondary service is requested exactly once when the
\* primary request is rejected (network error or non-2xx) and not at all when
\* it is fulfilled; a fulfilled primary response whose body is null or
\* undefined makes the run fail with a TypeError without any fallback; the
\* primary is requested once.
C2_FallbackOnRejectionOnly ==
    Len(ipLog) >= 1 =>
        /\ reqs.ip1 = 1
        /\ ipLog[1] \in {"neterr", "non2xx"} => reqs.ip2 = 1
        /\ ipLog[1] \notin {"neterr", "non2xx"} => reqs.ip2 = 0
        /\ ipLog[1] \in {"null", "undefined"} =>
              (pc = "failed" /\ failedAt = "ip" /\ flowError = "TypeError")

\* C2 witness: the primary answered outside 2xx and the secondary was asked
C2_Witness ==
    /\ Len(ipLog) = 2
    /\ ipLog[1] = "non2xx"
    /\ reqs.ip2 = 1
    /\ publicIP = <<"1.2.3.4">>

\* C3: getPublicIP never returns an empty IP, so no update request carries
\* empty content.
C3_NoEmptyIP ==
    /\ publicIP # <<>>
    /\ reqs.upd > 0 => updReq.content # <<>>

\* C4: at most one of the IP fetch, the lookups, the update and the persists
\* is in progress at any time.
C4_NoOverlap ==
    (IF NetworkPending THEN 1 ELSE 0) + Cardinality(PersistsPending) <= 1

\* C5: when set("zoneId", z) and set("recordId", r) have both persisted
\* without a reported failure, the document in the cache file gives z and r.
C5_FileReflectsBothSets ==
    (Len(saves) = 2 /\ \A i \in 1..2 : saves[i].st = "ok") =>
        /\ Parses(cfgFile)
        /\ Get(Parse(cfgFile), "zoneId") = Get(config, "zoneId")
        /\ Get(Parse(cfgFile), "recordId") = Get(config, "recordId")

\* C6: when the record lookup succeeds with zero matches (main's recordId is
\* null), the run has failed with a logged error, no update request was
\* issued, and nothing was stored under the cache key recordId: not in the
\* in-memory document, and no persist was started for it.
C6_NotFoundFailsFast ==
    (recordId = Null /\ pc # "rec") =>
        /\ pc = "failed"
        /\ flowError = NotFoundMessage
        /\ reqs.upd = 0
        /\ updReq = NoRequest
        /\ Get(config, "recordId") = Get(config0, "recordId")
        /\ Len(saves) = reqs.zone
        /\ \A i \in 1..Len(saves) :
              Get(Parse(saves[i].data), "recordId") = Get(config0, "recordId")

\* C6 witness: the zone was looked up and stored, the record lookup found
\* nothing
C6_Witness ==
    /\ recordId = Null
    /\ pc = "failed"
    /\ reqs.rec = 1
    /\ Len(saves) = 1

\* C7 (as stated): a lookup is issued only when the corresponding key is
\* absent from the cache.
C7_LookupOnlyWhenKeyAbsent ==
    /\ reqs.zone > 0 => "zoneId" \notin Keys(config0)
    /\ reqs.rec > 0 => "recordId" \notin Keys(config0)

\* C7 (amended): a run that starts with a non-empty zone id (record id) in
\* the cache issues no zone (record) lookup, and its update uses exactly the
\* cached value; a lookup is issued only when the key is absent from the
\* cache or holds an empty value.
C7_CachedIdsShortCircuit ==
    /\ Truthy(Get(config0, "zoneId")) =>
          /\ reqs.zone = 0
          /\ reqs.upd > 0 => updReq.zone = Get(config0, "zoneId")
    /\ Truthy(Get(config0, "recordId")) =>
          /\ reqs.rec = 0
          /\ reqs.upd > 0 => updReq.rec = Get(config0, "recordId")
    /\ reqs.zone > 0 => ~Truthy(Get(config0, "zoneId"))
    /\ reqs.rec > 0 => ~Truthy(Get(config0, "recordId"))

\* C7 witness: both identifiers cached, the update issued with them
C7_Witness ==
    /\ Get(config0, "zoneId") = "zc"
    /\ Get(config0, "recordId") = "rc"
    /\ reqs.upd = 1
    /\ updReq.zone = "zc"
    /\ updReq.rec = "rc"
    /\ reqs.zone = 0
    /\ reqs.rec = 0

\* C8: every run in which the public IP, the zone id and the record id are
\* resolved has issued exactly one update request, for those identifiers and
\* with the IP resolved in the same run as content, whatever an earlier run
\* wrote.
C8_UpdateUnconditional ==
    (publicIP # Unset /\ Truthy(recordId)) =>
        /\ reqs.upd = 1
        /\ updReq = UpdateRequest(zoneId, recordId, publicIP)
        /\ pc \in {"upd", "done", "failed"}
        /\ pc = "failed" => failedAt = "upd"

\* C8 witness: a later run issues the update although the provider already
\* holds the same IP from an earlier run
C8_Witness ==
    /\ run = 2
    /\ pc = "upd"
    /\ lastIP = <<"1.2.3.4">>
    /\ publicIP = lastIP
    /\ updReq.content = lastIP

\* C9: when an awaited client operation fails, the flow has logged the error
\* and the run has ended; no step after the failed one was executed, no
\* further request was issued, and each provider request is issued at most
\* once per run.
C9_NoRecoveryNoRetry ==
    /\ reqs.ip1 <= 1 /\ reqs.ip2 <= 1
    /\ reqs.zone <= 1 /\ reqs.rec <= 1 /\ reqs.upd <= 1
    /\ failedAt # "" <=> pc = "failed"
    /\ pc = "failed" => flowError # ""
    /\ failedAt = "ip" =>
          reqs.zone = 0 /\ reqs.rec = 0 /\ reqs.upd = 0 /\ saves = <<>>
    /\ failedAt = "zone" =>
          reqs.zone = 1 /\ reqs.rec = 0 /\ reqs.upd = 0 /\ saves = <<>>
    /\ failedAt = "rec" =>
          reqs.rec = 1 /\ reqs.upd = 0 /\ Len(saves) = reqs.zone
    /\ failedAt = "upd" => reqs.upd = 1

\* C9 witness: the zone lookup failed after the IP was fetched
C9_Witness ==
    /\ pc = "failed"
    /\ failedAt = "zone"
    /\ flowError = "Failed to fetch Zone ID"
    /\ publicIP # Unset

\* C10: no error of a run escapes main's catch: no promise is rejected
\* without a handler.
C10_AllErrorsCaught == unhandled = 0

\* the most recent saveConfig call
LastSave == saves[Len(saves)]

\* C11: saveConfig and set union-merge: a call keeps every key of the
\* in-memory document, with its old value unless the call supplied the key,
\* gives every supplied key its supplied value, and hands exactly the merged
\* document, serialised, to the write of the temporary file.
C11_UnionMerge ==
    [][Len(saves') > Len(saves) =>
        LET sv == saves'[Len(saves')] IN
        /\ Len(saves') = Len(saves) + 1
        /\ \A k \in Keys(config) :
              /\ k \in Keys(config')
              /\ Get(config', k) =
                    IF k \in Keys(sv.arg) THEN Get(sv.arg, k) ELSE Get(config, k)
        /\ \A k \in Keys(sv.arg) :
              k \in Keys(config') /\ Get(config', k) = Get(sv.arg, k)
        /\ Keys(config') = Keys(config) \cup Keys(sv.arg)
        /\ sv.data = Stringify(config')
        /\ Parses(sv.data) /\ Parse(sv.data) = config']_vars

\* C11 witness: saveConfig({new: "value"}) on a document holding "existing"
C11_Witness ==
    /\ saves # <<>>
    /\ LastSave.call = <<"saveConfig">>
    /\ LastSave.arg = << <<"new", "value">> >>
    /\ Get(LastSave.before, "existing") = "value"
    /\ Get(config, "existing") = "value"
    /\ Get(config, "new") = "value"

\* C12: after set(key, value), get(key) returns value whether the persist
\* set started is pending, has succeeded or has failed, and set handed the
\* whole in-memory document to saveConfig.
C12_GetAfterSet ==
    \A i \in 1..Len(saves) :
        saves[i].call[1] = "set" =>
            /\ Get(saves[i].arg, saves[i].call[2]) = saves[i].call[3]
            /\ saves[i].arg = saves[i].before
            /\ Parse(saves[i].data) = saves[i].arg
            /\ i = Len(saves) =>
                  /\ Get(config, saves[i].call[2]) = saves[i].call[3]
                  /\ config = saves[i].arg

\* C12 witness: the persist of the last set has failed
C12_Witness ==
    /\ saves # <<>>
    /\ LastSave.call = <<"set", "test", "new value">>
    /\ LastSave.st = "failed"
    /\ Get(config, "test") = "new value"
    /\ ~(Parses(cfgFile) /\ Get(Parse(cfgFile), "test") = "new value")

\* C13: a saveConfig call that failed (at the open or write of the temporary
\* file, or at the rename) has left the canonical file as it was, and the
\* in-memory document holds what the call merged.
C13_FailedSaveLeavesFile ==
    \A i \in 1..Len(saves) :
        saves[i].st = "failed" =>
            /\ saves[i].wrote # "canon"
            /\ \A k \in Keys(saves[i].arg) :
                  Get(config, k) = Get(saves[i].arg, k)

\* C14: rename is the durability boundary: the steps of a save before its
\* rename (the open and the write of the temporary file, or the failure of
\* either) leave the canonical file byte-identical.
C14_NothingBeforeRename ==
    [][\A i \in 1..Len(saves) :
        /\ Len(saves') = Len(saves)
        /\ saves[i].st \in {"open", "write"}
        /\ saves'[i].st # saves[i].st
        => cfgFile' = cfgFile]_vars

\* C15: no temporary file remains after a successful save: a save reaches
\* its rename only after its writeFile has written, the step that completes
\* a save is its rename, that save's write went to the temporary file, the
\* rename puts that file at the canonical path, and after it the temporary
\* path does not exist.
C15_RenameConsumesTemp ==
    [][\A i \in 1..Len(saves) :
        /\ saves[i].st \in {"rename", "ok"} => saves[i].wrote # "none"
        /\ /\ Len(saves') = Len(saves)
           /\ saves'[i].st = "ok"
           /\ saves[i].st # "ok"
           => /\ saves[i].st = "rename"
              /\ saves[i].wrote = "tmp"
              /\ tmpExists
              /\ ~tmpExists'
              /\ cfgFile' = tmpFile]_vars

\* C15 witness: a save has completed, the canonical file holds what it
\* wrote, and the temporary path does not exist
C15_Witness ==
    \E i \in 1..Len(saves) :
        /\ saves[i].st = "ok"
        /\ saves[i].wrote = "tmp"
        /\ cfgFile = saves[i].data
        /\ ~tmpExists

\* C16: no operation removes or clears a cached identifier: a zoneId or a
\* recordId the in-memory document holds stays in it for the rest of the
\* run, and one the cache file holds stays in the cache file.
C16_CachedIdsNeverCleared ==
    [][\A k \in {"zoneId", "recordId"} :
        /\ run' = run /\ Truthy(Get(config, k))
           => Get(config', k) = Get(config, k)
        /\ Parses(cfgFile) /\ Truthy(Get(Parse(cfgFile), k))
           => Parses(cfgFile') /\ Get(Parse(cfgFile'), k) = Get(Parse(cfgFile), k)]_vars

\* C17: when both IP services fail, the run fails with the secondary
\* service's error unmodified; at most two requests are made, one to each
\* service, and the secondary is requested only after the primary request
\* was rejected.
C17_SecondaryErrorPropagates ==
    /\ Len(ipLog) <= 2
    /\ reqs.ip1 <= 1
    /\ reqs.ip2 <= 1
    /\ reqs.ip2 > 0 => Len(ipLog) >= 1 /\ ipLog[1] \in {"neterr", "non2xx"}
    /\ Len(ipLog) = 2 /\ ipLog[2] \in {"neterr", "non2xx"} =>
          /\ pc = "failed"
          /\ failedAt = "ip"
          /\ flowError = IF ipLog[2] = "neterr" THEN "Network error"
                         ELSE "Request failed with status code"
          /\ publicIP = Unset
          /\ reqs.zone = 0 /\ reqs.rec = 0 /\ reqs.upd = 0

\* C17 witness: the primary had a network error and the secondary answered
\* with a status outside 2xx
C17_Witness ==
    /\ ipLog = <<"neterr", "non2xx">>
    /\ pc = "failed"
    /\ flowError = "Request failed with status code"

\* C18 as claimed: for a response of the provider, getRecordId raises
\* "Failed to fetch Record ID" when the provider reports failure, returns
\* null when the query succeeded with zero matches, and returns the id of
\* the first match when there is at least one.
C18_ThreeOutcomes ==
    apiLog.rec.st = "ok" =>
        /\ ~apiLog.rec.success =>
              failedAt = "rec" /\ flowError = "Failed to fetch Record ID"
        /\ apiLog.rec.success /\ ~apiLog.rec.matched =>
              recordId = Null /\ flowError = NotFoundMessage
        /\ apiLog.rec.success /\ apiLog.rec.matched =>
              recordId = apiLog.rec.first

\* C18 amended: a rejected request propagates its own error; a fulfilled
\* response with success false raises "Failed to fetch Record ID"; success
\* with zero matches, or with a first match whose id is empty, returns null
\* and raises nothing (main then raises the not-found error); success with a
\* first match that has an id returns that id.
C18_NullOnNoMatchOrEmptyId ==
    apiLog.rec.st # "" =>
        /\ reqs.rec = 1
        /\ apiLog.rec.st = "neterr" =>
              failedAt = "rec" /\ flowError = "Network error"
        /\ apiLog.rec.st = "non2xx" =>
              failedAt = "rec" /\ flowError = "Request failed with status code"
        /\ apiLog.rec.st = "ok" /\ ~apiLog.rec.success =>
              failedAt = "rec" /\ flowError = "Failed to fetch Record ID"
        /\ /\ apiLog.rec.st = "ok" /\ apiLog.rec.success
           /\ (~apiLog.rec.matched \/ apiLog.rec.first = "")
           => /\ recordId = Null
              /\ failedAt = "rec" /\ flowError = NotFoundMessage
        /\ /\ apiLog.rec.st = "ok" /\ apiLog.rec.success
           /\ apiLog.rec.matched /\ apiLog.rec.first # ""
           => /\ recordId = apiLog.rec.first
              /\ failedAt # "rec"
              /\ Get(config, "recordId") = apiLog.rec.first

\* C18 witness: the query succeeded and its first match has an empty id
C18_Witness ==
    /\ apiLog.rec.st = "ok" /\ apiLog.rec.success
    /\ apiLog.rec.matched /\ apiLog.rec.first = ""
    /\ recordId = Null

\* C19 as claimed: for a response of the provider, getZoneId returns the id
\* of the first zone when the provider reports success, fails with "Failed
\* to fetch Zone ID" when it reports failure, and fails in no other case.
C19_FailsOnlyOnReportedFailure ==
    apiLog.zone.st = "ok" =>
        /\ ~apiLog.zone.success =>
              failedAt = "zone" /\ flowError = "Failed to fetch Zone ID"
        /\ apiLog.zone.success =>
              /\ failedAt # "zone"
              /\ apiLog.zone.matched /\ zoneId = apiLog.zone.first

\* C19 amended: a rejected request propagates its own error; a fulfilled
\* response with success false fails with "Failed to fetch Zone ID"; success
\* with an empty result fails with a TypeError; success with at least one
\* zone returns the id of the first.
C19_FirstZoneOrTypeError ==
    apiLog.zone.st # "" =>
        /\ reqs.zone = 1
        /\ apiLog.zone.st = "neterr" =>
              failedAt = "zone" /\ flowError = "Network error"
        /\ apiLog.zone.st = "non2xx" =>
              failedAt = "zone" /\ flowError = "Request failed with status code"
        /\ apiLog.zone.st = "ok" /\ ~apiLog.zone.success =>
              failedAt = "zone" /\ flowError = "Failed to fetch Zone ID"
        /\ apiLog.zone.st = "ok" /\ apiLog.zone.success /\ ~apiLog.zone.matched =>
              failedAt = "zone" /\ flowError = "TypeError"
        /\ apiLog.zone.st = "ok" /\ apiLog.zone.success /\ apiLog.zone.matched =>
              /\ zoneId = apiLog.zone.first
              /\ failedAt # "zone"
              /\ Get(config, "zoneId") = apiLog.zone.first

\* C19 witness: the provider reported success with no zone
C19_Witness ==
    /\ apiLog.zone.st = "ok" /\ apiLog.zone.success /\ ~apiLog.zone.matched
    /\ pc = "failed" /\ failedAt = "zone" /\ flowError = "TypeError"

\* C20: partial progress is kept: in a run that looked the zone id up and
\* failed at a later step, the in-memory document holds the zone id and the
\* first saveConfig call of the run is the one set("zoneId", id) started,
\* with a document that holds the id.
C20_PartialProgressKept ==
    failedAt \in {"rec", "upd"} /\ reqs.zone = 1 =>
        /\ zoneId = apiLog.zone.first
        /\ Get(config, "zoneId") = zoneId
        /\ Len(saves) >= 1
        /\ saves[1].call = <<"set", "zoneId", zoneId>>
        /\ Parses(saves[1].data)
        /\ Get(Parse(saves[1].data), "zoneId") = zoneId

\* C20 witness: the zone was looked up and the record was not found
C20_Witness ==
    /\ failedAt = "rec" /\ flowError = NotFoundMessage
    /\ reqs.zone = 1
    /\ zoneId = "z1"
    /\ Get(config, "zoneId") = "z1"
    /\ ~("zoneId" \in Keys(config0))

\* of the lookups' responses, the one that resolves the identifier cached
\* under k
LookupOf(log, k) == IF k = "zoneId" THEN log.zone ELSE log.rec

\* C21: a run that has both identifiers in the cache starts no persist and
\* changes neither the cache file nor the temporary path; the files change
\* only while the run has persists, and each persist of a run was started by
\* set for an identifier the cache did not serve, after its lookup returned
\* that value.
C21_WritesOnlyAfterLookup ==
    [][/\ Truthy(Get(config0', "zoneId")) /\ Truthy(Get(config0', "recordId"))
          => /\ saves' = <<>>
             /\ reqs'.zone = 0 /\ reqs'.rec = 0
             /\ fsVars' = fsVars
       /\ fsVars' # fsVars => run' = run /\ saves # <<>>
       /\ \A i \in 1..Len(saves') :
             /\ saves'[i].call[1] = "set"
             /\ saves'[i].call[2] \in {"zoneId", "recordId"}
             /\ ~Truthy(Get(config0', saves'[i].call[2]))
             /\ LookupOf(apiLog', saves'[i].call[2]).st = "ok"
             /\ LookupOf(apiLog', saves'[i].call[2]).success
             /\ LookupOf(apiLog', saves'[i].call[2]).matched
             /\ LookupOf(apiLog', saves'[i].call[2]).first = saves'[i].call[3]]_vars

\* C21 witness: a second run served by the identifiers the first run looked
\* up and cached has finished without a persist
C21_Witness ==
    /\ run = 2
    /\ Get(config0, "zoneId") = "z1"
    /\ Get(config0, "recordId") = "r1"
    /\ pc = "done"
    /\ saves = <<>>
    /\ reqs.zone = 0 /\ reqs.rec = 0
    /\ cfgFile = Stringify(config0)
    /\ ~tmpExists

\* C22: whenever the update request is issued, the zone id and the record id
\* it carries are non-empty: neither is null, undefined or "".
C22_UpdateIdsNonEmpty ==
    reqs.upd > 0 => Truthy(updReq.zone) /\ Truthy(updReq.rec)

====
